---- MODULE Spec2Model ----
(***************************************************************************)
(* Option profit/loss calculator (src/app.py): the Black-Scholes pricer,   *)
(* the price-axis builder and the request handler that sweeps dates x      *)
(* prices.                                                                 *)
(*                                                                         *)
(* Numbers.  A Python float is a pair <<class, n>>:                        *)
(*   <<"fin", v>>   the value v / Scale, Scale = 200 units per currency    *)
(*                  unit, so that eighths (binary fractions, exact in a    *)
(*                  double) and cents (the results of round(x, 2)) are     *)
(*                  both whole numbers of units;                           *)
(*   <<"big", j>>   the value 2^53 + j, the range where a double no longer *)
(*                  holds every integer: j <= 0 any integer, j > 0 even;   *)
(*   <<"inf", s>>   +inf (s = 1) or -inf (s = -1);   <<"nan", 0>>  NaN.    *)
(* Arithmetic on "fin" values is exact: the relative error 2^-53 of one    *)
(* double operation is below the resolution and is not modelled.  What a   *)
(* double does at 2^53 (x + 1.0 rounds back to x) is modelled, because it  *)
(* decides whether the price-axis loop ends.  A value the model does not   *)
(* compute (the closed form with log, sqrt, erf, exp) is kept as the term  *)
(* of its operands.                                                        *)
(***************************************************************************)
EXTENDS Integers, Sequences, FiniteSets, TLC

(* ------------------------------ bounds -------------------------------- *)
\* Largest whole currency amount among the price inputs.
MaxWhole == 2
\* Furthest expiry among the date inputs, in days after today.
MaxDays == 2

(* ------------------------------ floats -------------------------------- *)
Cents == 100
Scale == 2 * Cents
Fin(v) == <<"fin", v>>
Big(j) == <<"big", j>>
PosInf == <<"inf", 1>>
NegInf == <<"inf", -1>>
NaN == <<"nan", 0>>
\* A rational that is not on the grid (T = days / 365.0, sigma = iv / 100.0).
Ratio(num, den) == <<"ratio", num, den>>

IsFin(a) == a[1] = "fin"
IsBig(a) == a[1] = "big"
IsNaN(a) == a[1] = "nan"
IsFinite(a) == IsFin(a) \/ IsBig(a)

\* Position of a float's class on the number line (all "big" values are
\* above all "fin" values of the model).
Tier(a) == CASE a[1] = "fin" -> 0
             [] a[1] = "big" -> 1
             [] a[1] = "inf" -> 2 * a[2]
             [] OTHER -> 0

\* a <= b on doubles: false as soon as one side is NaN.
FLeq(a, b) ==
    /\ ~IsNaN(a)
    /\ ~IsNaN(b)
    /\ \/ Tier(a) < Tier(b)
       \/ Tier(a) = Tier(b) /\ (a[1] = "inf" \/ a[2] <= b[2])

\* a < b on doubles.
FLt(a, b) ==
    /\ ~IsNaN(a)
    /\ ~IsNaN(b)
    /\ \/ Tier(a) < Tier(b)
       \/ Tier(a) = Tier(b) /\ a[1] # "inf" /\ a[2] < b[2]

\* x rounded to a multiple of q, ties to the even multiple (IEEE 754
\* round-half-even; also the rule of round() and of the .2f format).
RoundHalfEven(x, q) ==
    LET m == x \div q
        rem == x - m * q
    IN  IF 2 * rem < q THEN m * q
        ELSE IF 2 * rem > q THEN (m + 1) * q
        ELSE IF m % 2 = 0 THEN m * q ELSE (m + 1) * q

\* The double nearest to 2^53 + x / Scale (x in units): below 2^53 doubles
\* are 1 apart, from 2^53 on they are 2 apart.
NearBig(x) ==
    LET below == RoundHalfEven(x, Scale)
        above == RoundHalfEven(x, 2 * Scale)
    IN  IF x < 0 THEN Big(below \div Scale) ELSE Big(above \div Scale)

\* a + b on doubles, b a "fin" value (the step) or a being "fin".
FAdd(a, b) ==
    CASE IsFin(a) /\ IsFin(b) -> Fin(a[2] + b[2])
      [] IsBig(a) /\ IsFin(b) -> NearBig(a[2] * Scale + b[2])
      [] IsNaN(a) \/ IsNaN(b) -> NaN
      [] OTHER -> a

\* a - b; exact on the grid, a term otherwise.
FSub(a, b) == IF IsFin(a) /\ IsFin(b) THEN Fin(a[2] - b[2]) ELSE <<"sub", a, b>>

\* a * n for an integer n (the multiplier 100, the contract count).
FMul(a, n) == IF IsFin(a) THEN Fin(a[2] * n) ELSE <<"mul", a, n>>

\* max(0.0, a).
FMax0(a) == IF IsFin(a) THEN (IF a[2] > 0 THEN a ELSE Fin(0)) ELSE <<"max0", a>>

\* 1e-9 is 1 / TolInv; in units it is below the resolution, so for values on
\* the grid x <= y + 1e-9 decides as x <= y + TolUnits.  At 2^53 and beyond
\* the sum y + 1e-9 rounds back to y.
TolInv == 1000000000
TolUnits == Scale \div TolInv
AddTol(a) == IF IsFin(a) THEN Fin(a[2] + TolUnits) ELSE a

\* round(a, 1) in place of round(a, 2).
RoundToTenths(a) == IF IsFin(a) THEN Fin(RoundHalfEven(a[2], Scale \div 10)) ELSE a

\* round(a, 2): the nearest multiple of 0.01, ties to the even cent; an
\* integer from 2^52 on, an infinity and NaN come back unchanged.
Round2(a) == IF IsFin(a) THEN Fin(RoundHalfEven(a[2], Scale \div Cents)) ELSE a

\* f"{p:.2f}": sign, whole part and the two decimals of p rounded to cents.
Format2(p) ==
    LET c == IF IsFin(p) THEN RoundHalfEven(p[2], Scale \div Cents) \div (Scale \div Cents)
             ELSE p[2] * Cents
        mag == IF c < 0 THEN 0 - c ELSE c
    IN  <<p[1], IF c < 0 THEN "-" ELSE "", mag \div Cents, mag % Cents>>

\* x <= 0 for a float or a ratio with a positive denominator.
NonPositive(x) ==
    CASE x[1] = "fin" -> x[2] <= 0
      [] x[1] = "ratio" -> x[2] <= 0
      [] x[1] = "inf" -> x[2] < 0
      [] OTHER -> FALSE

\* a / n for a positive integer n: a ratio, not a grid value.
FDiv(a, n) == IF IsFin(a) THEN Ratio(a[2], n * Scale) ELSE a

(* ------------------------------- dates -------------------------------- *)
\* A date is <<year, month, day>>; its text "YYYY-MM-DD" holds the same
\* three numbers.  Date arithmetic goes through the proleptic Gregorian
\* ordinal, as datetime.date does.
IsLeap(y) == y % 4 = 0 /\ (y % 100 # 0 \/ y % 400 = 0)

MonthLength(leap, m) ==
    IF m = 2 THEN (IF leap THEN 29 ELSE 28)
    ELSE IF m \in {4, 6, 9, 11} THEN 30 ELSE 31

DaysInMonth(y, m) == MonthLength(IsLeap(y), m)

RECURSIVE DaysBeforeMonth(_, _)
DaysBeforeMonth(leap, m) ==
    IF m <= 1 THEN 0 ELSE DaysBeforeMonth(leap, m - 1) + MonthLength(leap, m - 1)

DaysBeforeYear(y) ==
    LET p == y - 1 IN p * 365 + p \div 4 - p \div 100 + p \div 400

\* A date object.
Date(y, m, d) == [year |-> y, month |-> m, day |-> d]

\* date.toordinal(): 1 for 0001-01-01.
Ymd2Ord(t) ==
    DaysBeforeYear(t.year) + DaysBeforeMonth(IsLeap(t.year), t.month) + t.day

\* date.fromordinal(n): the 400/100/4/1-year cycles, then the month.
Ord2Ymd(n) ==
    LET n0 == n - 1
        n400 == n0 \div 146097
        r400 == n0 % 146097
        n100 == r400 \div 36524
        r100 == r400 % 36524
        n4 == r100 \div 1461
        r4 == r100 % 1461
        n1 == r4 \div 365
        r1 == r4 % 365
        y == n400 * 400 + 1 + n100 * 100 + n4 * 4 + n1
        leap == n1 = 3 /\ (n4 # 24 \/ n100 = 3)
        guess == (r1 + 50) \div 32
        m == IF DaysBeforeMonth(leap, guess) > r1 THEN guess - 1 ELSE guess
    IN  IF n1 = 4 \/ n100 = 4 THEN Date(y - 1, 12, 31)
        ELSE Date(y, m, r1 - DaysBeforeMonth(leap, m) + 1)

\* The text "YYYY-MM-DD" is the triple of its three numbers.
\* datetime.strptime(text, "%Y-%m-%d") raises ValueError unless they name a
\* day of the calendar.
ValidDate(t) ==
    /\ t[1] \in 1..9999
    /\ t[2] \in 1..12
    /\ t[3] >= 1
    /\ t[3] <= DaysInMonth(t[1], t[2])

Strptime(t) == Date(t[1], t[2], t[3])

\* d + timedelta(days=k), (a - b).days and d.isoformat().
AddDays(d, k) == Ord2Ymd(Ymd2Ord(d) + k)
DaysBetween(a, b) == Ymd2Ord(a) - Ymd2Ord(b)
IsoFormat(d) == <<d.year, d.month, d.day>>

Max0(n) == IF n > 0 THEN n ELSE 0

(* ------------------------------ pricer -------------------------------- *)
RiskFreePct == 2
YearDays == 365
Multiplier == 100

\* `T < 0` in place of `T <= 0`.
BoundaryAfterExpiryOnly(T, sigma) == T[2] < 0 \/ NonPositive(sigma)

\* `if T <= 0 or sigma <= 0:` (line 25)
Boundary(T, sigma) == NonPositive(T) \/ NonPositive(sigma)

\* black_scholes_price: exc is the exception raised ("none": a value is
\* returned), ops the operations of line 31 that were evaluated.
black_scholes_price(S, K, T, r, sigma, option_type) ==
    IF Boundary(T, sigma)
    THEN [exc |-> "none", ops |-> {},
          value |-> IF option_type = "call" THEN FMax0(FSub(S, K))
                    ELSE FMax0(FSub(K, S))]
    ELSE IF IsFin(K) /\ K[2] = 0
    THEN [exc |-> "ZeroDivisionError", ops |-> {"S/K"}, value |-> NaN]
    ELSE IF IsFin(S) /\ IsFin(K) /\ S[2] * K[2] <= 0
    THEN [exc |-> "ValueError", ops |-> {"S/K", "log"}, value |-> NaN]
    ELSE [exc |-> "none", ops |-> {"S/K", "log", "/(sigma*sqrt(T))"},
          value |-> <<IF option_type = "call" THEN "bs_call" ELSE "bs_put",
                      S, K, T, r, sigma>>]

(* --------------------------- form texts ------------------------------- *)
\* The text of a form field is <<kind, sign, whole, mil>>: "int" the digits
\* of a whole number, "dec" a decimal literal whole.mil with three decimals,
\* "inf" and "nan" the words float() accepts, "abc" a text that is no
\* number, "absent" a field the form does not carry (form.get gives None).
IntText(n) == <<"int", IF n < 0 THEN -1 ELSE 1, IF n < 0 THEN 0 - n ELSE n, 0>>
DecText(w, mil) == <<"dec", 1, w, mil>>
InfText == <<"inf", 1, 0, 0>>
NanText == <<"nan", 1, 0, 0>>
JunkText == <<"abc", 1, 0, 0>>
Absent == <<"absent", 1, 0, 0>>

\* float(text): exc is "none", "ValueError" or "TypeError".
ParseFloat(t) ==
    CASE t[1] \in {"int", "dec"} ->
           [exc |-> "none",
            value |-> Fin(t[2] * (t[3] * Scale + (t[4] * Scale) \div 1000))]
      [] t[1] = "inf" -> [exc |-> "none", value |-> <<"inf", t[2]>>]
      [] t[1] = "nan" -> [exc |-> "none", value |-> NaN]
      [] t[1] = "absent" -> [exc |-> "TypeError", value |-> NaN]
      [] OTHER -> [exc |-> "ValueError", value |-> NaN]

\* int(text): only the digits of a whole number parse.
ParseInt(t) ==
    CASE t[1] = "int" -> [exc |-> "none", value |-> t[2] * t[3]]
      [] t[1] = "absent" -> [exc |-> "TypeError", value |-> 0]
      [] OTHER -> [exc |-> "ValueError", value |-> 0]

(* ------------------------------- dicts -------------------------------- *)
\* A dict is the sequence of its <<key, value>> pairs in insertion order.
DictHas(d, k) == \E i \in 1..Len(d) : d[i][1] = k
DictGet(d, k) == d[CHOOSE i \in 1..Len(d) : d[i][1] = k][2]
DictSet(d, k, v) ==
    IF DictHas(d, k)
    THEN [i \in 1..Len(d) |-> IF d[i][1] = k THEN <<k, v>> ELSE d[i]]
    ELSE Append(d, <<k, v>>)

(* ------------------------------- state -------------------------------- *)
VARIABLES
    pc,                 \* where the handler (or the function under call) is
    response,           \* <<template, error message>> once the handler returned
    form, today,        \* request.form and date.today()
    strike_price, premium, contracts, option_type, implied_volatility,
    expiry_date, total_days,                     \* locals of index()
    stock_min, stock_max, step, current, prices, \* frame of build_price_points
    ret,                \* who called build_price_points
    price_points, rows, date_list, grid, day_offset,
    call, result        \* arguments and result of a direct pricer call

vars == <<pc, response, form, today, strike_price, premium, contracts,
          option_type, implied_volatility, expiry_date, total_days,
          stock_min, stock_max, step, current, prices, ret,
          price_points, rows, date_list, grid, day_offset, call, result>>

inputVars == <<form, today>>
localVars == <<strike_price, premium, contracts, option_type,
               implied_volatility, expiry_date, total_days>>
frameVars == <<stock_min, stock_max, step, ret>>
sweepVars == <<rows, date_list, grid, day_offset>>
pricerVars == <<call, result>>

ErrRange == "Max stock price must be greater than or equal to min stock price."
ErrInvalid == "Invalid input. Please make sure all numeric fields contain valid numbers."

Unset == <<"unset", 0>>
NoForm == [stock_price |-> Absent, strike_price |-> Absent, premium |-> Absent,
           contracts |-> Absent, option_type |-> "", expiry_date |-> <<0, 0, 0>>,
           implied_volatility |-> Absent, stock_min |-> Absent, stock_max |-> Absent]
NoCall == [S |-> Unset, K |-> Unset, T |-> Unset, r |-> Unset, sigma |-> Unset,
           option_type |-> ""]
NoResult == [exc |-> "unset", ops |-> {}, value |-> Unset]

(* --------------------------- the inputs ------------------------------- *)
\* The day after a date text, by the calendar rule.
NextDayText(t) ==
    IF t[3] < DaysInMonth(t[1], t[2]) THEN <<t[1], t[2], t[3] + 1>>
    ELSE IF t[2] < 12 THEN <<t[1], t[2] + 1, 1>>
    ELSE <<t[1] + 1, 1, 1>>

RECURSIVE DayAfter(_, _)
DayAfter(t, k) == IF k = 0 THEN t ELSE NextDayText(DayAfter(t, k - 1))

\* Evaluation days: before a leap day, and before the turn of a year.
TodayCases ==
    { [today |-> <<2024, 2, 28>>, yesterday |-> <<2024, 2, 27>>],
      [today |-> <<2023, 12, 30>>, yesterday |-> <<2023, 12, 29>>] }

\* Expiry texts: yesterday, today .. MaxDays ahead, and a day no month has.
ExpiryTexts(c) ==
    {c.yesterday} \cup {DayAfter(c.today, k) : k \in 0..MaxDays}
        \cup {<<c.today[1], 2, 30>>}

StockPriceTexts == {IntText(1), JunkText}
StrikeTexts == {IntText(0), IntText(1), Absent}
PremiumTexts == {DecText(0, 250), IntText(1), JunkText}
ContractTexts == {IntText(1), IntText(3), DecText(1, 500)}
OptionTypeTexts == {"call", "put", "straddle"}
VolatilityTexts == {IntText(0), IntText(20), JunkText}
MinTexts ==
    {IntText(n) : n \in -1..MaxWhole} \cup {DecText(n, 375) : n \in 0..(MaxWhole - 1)}
        \cup {NanText, JunkText}
MaxTexts ==
    {IntText(n) : n \in 0..MaxWhole} \cup {DecText(n, 375) : n \in 0..(MaxWhole - 1)}
        \cup {InfText, Absent}

\* The price-axis loop of the model stops after LoopCap samples: more than
\* any finite range of the inputs needs.
LoopCap == MaxWhole + 4

(* ----------------------------- validation ----------------------------- *)
\* Lines 55-63, in order; contracts alone goes through int().
FieldOrder == <<"stock_price", "strike_price", "premium", "contracts",
                "implied_volatility", "stock_min", "stock_max">>

FieldExc(f, name) ==
    IF name = "contracts" THEN ParseInt(f[name]).exc ELSE ParseFloat(f[name]).exc

RECURSIVE FirstExc(_, _)
FirstExc(f, i) ==
    IF i > Len(FieldOrder) THEN "none"
    ELSE IF FieldExc(f, FieldOrder[i]) # "none" THEN FieldExc(f, FieldOrder[i])
    ELSE FirstExc(f, i + 1)

\* The comparison the wrong way round.
RangeCheckSwapped(lo, hi) == FLt(lo, hi)

\* `if stock_max < stock_min:` (line 65)
RangeRejected(lo, hi) == FLt(hi, lo)

\* Lines 55-70: the stage at which the request is turned away, or "ok".
Validate(f) ==
    IF FirstExc(f, 1) # "none" THEN [stage |-> "fields", exc |-> FirstExc(f, 1)]
    ELSE IF RangeRejected(ParseFloat(f.stock_min).value, ParseFloat(f.stock_max).value)
    THEN [stage |-> "range", exc |-> "none"]
    ELSE IF ~ValidDate(f.expiry_date) THEN [stage |-> "date", exc |-> "ValueError"]
    ELSE [stage |-> "ok", exc |-> "none"]

InvalidFields(f) ==
    Cardinality({i \in 1..Len(FieldOrder) : FieldExc(f, FieldOrder[i]) # "none"})
        + (IF ValidDate(f.expiry_date) THEN 0 ELSE 1)

\* The forms of the model: every combination of the texts above with at
\* most one field that does not parse.
Forms(c) ==
    { f \in [stock_price : StockPriceTexts, strike_price : StrikeTexts,
             premium : PremiumTexts, contracts : ContractTexts,
             option_type : OptionTypeTexts, expiry_date : ExpiryTexts(c),
             implied_volatility : VolatilityTexts,
             stock_min : MinTexts, stock_max : MaxTexts] :
        InvalidFields(f) <= 1 }

IdleRequest ==
    /\ response = <<"", "">>
    /\ strike_price = Unset /\ premium = Unset /\ contracts = 0
    /\ option_type = "" /\ implied_volatility = Unset
    /\ expiry_date = Date(1, 1, 1) /\ total_days = 0
    /\ rows = <<>> /\ date_list = <<>> /\ grid = <<>> /\ day_offset = 0

IdleFrame ==
    /\ stock_min = Unset /\ stock_max = Unset /\ step = Unset
    /\ current = Unset /\ prices = <<>> /\ ret = "" /\ price_points = <<>>

IdlePricer == call = NoCall /\ result = NoResult

Init ==
    /\ pc = "start"
    /\ \E c \in TodayCases :
         /\ today = Strptime(c.today)
         /\ form \in Forms(c)
    /\ IdleRequest
    /\ IdleFrame
    /\ IdlePricer

(* ------------------------- index(): validation ------------------------ *)
\* A field does not parse: ValueError or TypeError, caught at line 157.
ParseFail ==
    /\ pc = "start"
    /\ Validate(form).stage = "fields"
    /\ pc' = "error"
    /\ response' = <<"index.html", ErrInvalid>>
    /\ UNCHANGED <<inputVars, localVars, frameVars, current, prices,
                   price_points, sweepVars, pricerVars>>

\* stock_max < stock_min (lines 65-67).
RangeFail ==
    /\ pc = "start"
    /\ Validate(form).stage = "range"
    /\ pc' = "error"
    /\ response' = <<"index.html", ErrRange>>
    /\ UNCHANGED <<inputVars, localVars, frameVars, current, prices,
                   price_points, sweepVars, pricerVars>>

\* strptime raises ValueError (line 70), caught at line 157.
DateFail ==
    /\ pc = "start"
    /\ Validate(form).stage = "date"
    /\ pc' = "error"
    /\ response' = <<"index.html", ErrInvalid>>
    /\ UNCHANGED <<inputVars, localVars, frameVars, current, prices,
                   price_points, sweepVars, pricerVars>>

\* Lines 55-76: every field parsed, the range accepted, the date parsed;
\* build_price_points is entered.
Accept ==
    /\ pc = "start"
    /\ Validate(form).stage = "ok"
    /\ strike_price' = ParseFloat(form.strike_price).value
    /\ premium' = ParseFloat(form.premium).value
    /\ contracts' = ParseInt(form.contracts).value
    /\ option_type' = form.option_type
    /\ implied_volatility' = ParseFloat(form.implied_volatility).value
    /\ expiry_date' = Strptime(form.expiry_date)
    /\ total_days' = Max0(DaysBetween(Strptime(form.expiry_date), today))
    /\ stock_min' = ParseFloat(form.stock_min).value
    /\ stock_max' = ParseFloat(form.stock_max).value
    /\ step' = Fin(Scale)
    /\ current' = ParseFloat(form.stock_min).value
    /\ prices' = <<>>
    /\ ret' = "index"
    /\ pc' = "build"
    /\ UNCHANGED <<response, inputVars, price_points, sweepVars, pricerVars>>

(* ------------------------- build_price_points ------------------------- *)
\* `while current <= stock_max + 1e-9:` (line 43)
WithinMax(cur, hi) == FLeq(cur, AddTol(hi))

\* One iteration (lines 44-45).
BuildStep ==
    /\ pc = "build"
    /\ WithinMax(current, stock_max)
    /\ Len(prices) < LoopCap
    /\ prices' = Append(prices, Round2(current))
    /\ current' = FAdd(current, step)
    /\ UNCHANGED <<pc, response, inputVars, localVars, frameVars,
                   price_points, sweepVars, pricerVars>>

\* The loop ends and the list is returned (line 46).
BuildReturn ==
    /\ pc = "build"
    /\ ~WithinMax(current, stock_max)
    /\ price_points' = prices
    /\ pc' = IF ret = "index" THEN "table" ELSE "returned"
    /\ UNCHANGED <<response, inputVars, localVars, frameVars, current, prices,
                   sweepVars, pricerVars>>

(* ---------------------- index(): expiry-only table -------------------- *)
\* `cost_per_contract = premium * 100` (line 81)
CostPerContract(prem) == FMul(prem, Multiplier)

\* The call branch taken for every option type.
IntrinsicOfCall(p, strike, otype) == FMax0(FSub(p, strike))

\* Intrinsic value at expiry (lines 84-87): anything but "call" is a put.
Intrinsic(p, strike, otype) ==
    IF otype = "call" THEN FMax0(FSub(p, strike)) ELSE FMax0(FSub(strike, p))

\* Lines 89-91 and 128-130: from a per-share value to the two P/L figures.
PerContract(value, prem) == FSub(FMul(value, Multiplier), CostPerContract(prem))
TotalPl(value, prem, n) == FMul(PerContract(value, prem), n)

\* One row (lines 83-97).
Row(p, strike, prem, n, otype) ==
    [price |-> p,
     pl_total |-> TotalPl(Intrinsic(p, strike, otype), prem, n),
     pl_per_contract |-> PerContract(Intrinsic(p, strike, otype), prem)]

ExpiryTable ==
    /\ pc = "table"
    /\ rows' = [i \in 1..Len(price_points) |->
                  Row(price_points[i], strike_price, premium, contracts, option_type)]
    /\ date_list' = <<>>
    /\ grid' = <<>>
    /\ day_offset' = 0
    /\ pc' = "grid"
    /\ UNCHANGED <<response, inputVars, localVars, frameVars, current, prices,
                   price_points, pricerVars>>

(* ---------------------- index(): date x price grid -------------------- *)
\* `range(total_days)`: the expiry day left out.
LoopDaysExclusive(n) == n

\* `range(total_days + 1)` (line 107)
LoopDays(n) == n + 1

\* The expiry day counted as a day still to go.
TimeToExpiryInclusive(expiry, d) == Ratio(Max0(DaysBetween(expiry, d)) + 1, YearDays)

\* Lines 113-114: T of the day d, in years.
TimeToExpiry(expiry, d) == Ratio(Max0(DaysBetween(expiry, d)), YearDays)

\* The pricer call of lines 119-126 for the sample p on the day d.
Cell(p, d) ==
    black_scholes_price(p, strike_price, TimeToExpiry(expiry_date, d),
                        Ratio(RiskFreePct, 100), FDiv(implied_volatility, 100),
                        option_type)

\* The first sample of the day whose pricer call raises, 0 if none does.
FirstRaise(d) ==
    IF \E i \in 1..Len(price_points) : Cell(price_points[i], d).exc # "none"
    THEN CHOOSE i \in 1..Len(price_points) :
           /\ Cell(price_points[i], d).exc # "none"
           /\ \A j \in 1..(i - 1) : Cell(price_points[j], d).exc = "none"
    ELSE 0

\* daily_map after the first i samples (lines 116-133).
RECURSIVE DailyMap(_, _)
DailyMap(d, i) ==
    IF i = 0 THEN <<>>
    ELSE DictSet(DailyMap(d, i - 1), Format2(price_points[i]),
                 TotalPl(Cell(price_points[i], d).value, premium, contracts))

\* One day of the sweep, every pricer call returning (lines 107-135).
GridDay ==
    /\ pc = "grid"
    /\ day_offset < LoopDays(total_days)
    /\ LET d == AddDays(today, day_offset) IN
         /\ FirstRaise(d) = 0
         /\ date_list' = Append(date_list, IsoFormat(d))
         /\ grid' = DictSet(grid, IsoFormat(d), DailyMap(d, Len(price_points)))
    /\ day_offset' = day_offset + 1
    /\ UNCHANGED <<pc, response, inputVars, localVars, frameVars, current, prices,
                   price_points, rows, pricerVars>>

\* One day of the sweep in which a pricer call raises: ValueError is caught
\* at line 157 and the form is rendered with the error; ZeroDivisionError is
\* not caught and leaves index().
GridRaise ==
    /\ pc = "grid"
    /\ day_offset < LoopDays(total_days)
    /\ LET d == AddDays(today, day_offset) IN
         /\ FirstRaise(d) # 0
         /\ date_list' = Append(date_list, IsoFormat(d))
         /\ pc' = IF Cell(price_points[FirstRaise(d)], d).exc = "ValueError"
                  THEN "error" ELSE "crash"
         /\ response' = IF Cell(price_points[FirstRaise(d)], d).exc = "ValueError"
                        THEN <<"index.html", ErrInvalid>>
                        ELSE <<"500", Cell(price_points[FirstRaise(d)], d).exc>>
    /\ UNCHANGED <<inputVars, localVars, frameVars, current, prices,
                   price_points, rows, grid, day_offset, pricerVars>>

\* Lines 138-155: the results page.
Render ==
    /\ pc = "grid"
    /\ day_offset >= LoopDays(total_days)
    /\ pc' = "done"
    /\ response' = <<"results.html", "">>
    /\ UNCHANGED <<inputVars, localVars, frameVars, current, prices,
                   price_points, sweepVars, pricerVars>>

Next ==
    \/ ParseFail
    \/ RangeFail
    \/ DateFail
    \/ Accept
    \/ BuildStep
    \/ BuildReturn
    \/ ExpiryTable
    \/ GridDay
    \/ GridRaise
    \/ Render

\* One POST request, from the form to the response.
Spec == Init /\ [][Next]_vars

(* ----------------- build_price_points called directly ----------------- *)
\* Whole numbers around 2^53: below it every integer is a double, from it on
\* every second one.
BigOffsets == {j \in -2..(2 * MaxWhole) : j <= 0 \/ j % 2 = 0}

AxisFins ==
    {Fin(n * Scale) : n \in -1..MaxWhole}
        \cup {Fin(n * Scale + (3 * Scale) \div 8) : n \in 0..(MaxWhole - 1)}
AxisBigs == {Big(j) : j \in BigOffsets}
AxisOthers == {NaN, PosInf, NegInf}

\* Arguments of a call: both on the grid, both around 2^53, or one of them
\* not a finite number.
AxisPairs ==
    { q \in (AxisFins \cup AxisBigs \cup AxisOthers)
              \X (AxisFins \cup AxisBigs \cup AxisOthers) :
        ~(IsFin(q[1]) /\ IsBig(q[2])) /\ ~(IsBig(q[1]) /\ IsFin(q[2])) }

InitAxis ==
    /\ pc = "build"
    /\ form = NoForm
    /\ today = Date(1, 1, 1)
    /\ IdleRequest
    /\ IdlePricer
    /\ \E q \in AxisPairs :
         /\ stock_min = q[1]
         /\ stock_max = q[2]
         /\ current = q[1]
    /\ step = Fin(Scale)
    /\ prices = <<>>
    /\ price_points = <<>>
    /\ ret = "caller"

NextAxis ==
    \/ BuildStep
    \/ BuildReturn

\* build_price_points(stock_min, stock_max) with the default step 1.0.
SpecAxis == InitAxis /\ [][NextAxis]_vars

(* ---------------- black_scholes_price called directly ----------------- *)
PricerPrices ==
    {Fin(n * Scale) : n \in -1..MaxWhole} \cup {Fin(Scale + 76)}
PricerStrikes == {Fin(0 - Scale), Fin(0), Fin(Scale), Fin(Scale + Scale \div 2)}
PricerTimes == {Ratio(d, YearDays) : d \in -1..MaxDays}
PricerSigmas == {FDiv(Fin(iv * Scale), 100) : iv \in {-20, 0, 20}}
PricerTypes == {"call", "put", "straddle"}

InitPricer ==
    /\ pc = "call"
    /\ form = NoForm
    /\ today = Date(1, 1, 1)
    /\ IdleRequest
    /\ IdleFrame
    /\ call \in [S : PricerPrices, K : PricerStrikes, T : PricerTimes,
                 r : {Ratio(RiskFreePct, 100)}, sigma : PricerSigmas,
                 option_type : PricerTypes]
    /\ result = NoResult

Price ==
    /\ pc = "call"
    /\ result' = black_scholes_price(call.S, call.K, call.T, call.r, call.sigma,
                                     call.option_type)
    /\ pc' = "priced"
    /\ UNCHANGED <<response, inputVars, localVars, frameVars, current, prices,
                   price_points, sweepVars, call>>

NextPricer == Price

\* One call of black_scholes_price.
SpecPricer == InitPricer /\ [][NextPricer]_vars

(* ============================== claims ================================ *)
Last(q) == q[Len(q)]
StrictlyIncreasing(q) == \A i \in 1..(Len(q) - 1) : FLt(q[i], q[i + 1])

(* C1: whenever T <= 0 or sigma <= 0, a call or put is priced at exactly its
   intrinsic value, max(0, S - K) or max(0, K - S), and neither the
   logarithm nor any division of the closed form is evaluated. *)
C1_BoundaryIsIntrinsic ==
    (/\ pc = "priced"
     /\ call.option_type \in {"call", "put"}
     /\ (call.T[2] <= 0 \/ call.sigma[2] <= 0))
    => /\ result.exc = "none"
       /\ result.ops = {}
       /\ result.value =
            Fin(IF call.option_type = "call" THEN Max0(call.S[2] - call.K[2])
                ELSE Max0(call.K[2] - call.S[2]))

\* A call in the money priced on the expiry day with a strike of zero, where
\* the closed form would divide by zero.
C1_Witness ==
    /\ pc = "priced"
    /\ call.T[2] = 0
    /\ call.sigma[2] > 0
    /\ call.K[2] = 0
    /\ call.S[2] > 0
    /\ call.option_type = "call"
    /\ result.value = call.S

(* C2: the date axis of a successful request has max(0, N) + 1 entries for
   an expiry N days after today: today first, then each next calendar day,
   the expiry date last; for an expiry in the past it is today alone. *)
C2_DateAxis ==
    pc = "done" =>
      LET t == IsoFormat(today)
          ahead == {k \in 0..MaxDays : DayAfter(t, k) = form.expiry_date}
      IN  /\ Len(date_list) >= 1
          /\ date_list[1] = t
          /\ \A i \in 1..(Len(date_list) - 1) :
               date_list[i + 1] = NextDayText(date_list[i])
          /\ \A k \in ahead :
               /\ Len(date_list) = k + 1
               /\ Last(date_list) = form.expiry_date
          /\ ahead = {} => date_list = <<t>>

\* An axis of MaxDays + 1 days that runs into the next month or year.
C2_Witness ==
    /\ pc = "done"
    /\ Len(date_list) = MaxDays + 1
    /\ Last(date_list) = form.expiry_date
    /\ Last(date_list)[2] # date_list[1][2]

(* C3: in a successful request whose expiry is today or later, the grid
   entry under the expiry date holds, under the key of each price sample,
   the total P/L of that sample's row of the expiry-only table. *)
C3_GridAtExpiryIsTable ==
    (pc = "done" /\ \E k \in 0..MaxDays : DayAfter(IsoFormat(today), k) = form.expiry_date)
    => /\ DictHas(grid, form.expiry_date)
       /\ Len(rows) = Len(price_points)
       /\ \A i \in 1..Len(price_points) :
            /\ rows[i].price = price_points[i]
            /\ DictHas(DictGet(grid, form.expiry_date), Format2(price_points[i]))
            /\ DictGet(DictGet(grid, form.expiry_date), Format2(price_points[i]))
                 = rows[i].pl_total

\* A request MaxDays before expiry with positive volatility, several
\* samples and a row in profit.
C3_Witness ==
    /\ pc = "done"
    /\ total_days = MaxDays
    /\ implied_volatility[2] > 0
    /\ Len(price_points) >= 2
    /\ \E i \in 1..Len(rows) : rows[i].pl_total[2] > 0

(* C4: for whole-number stock_min <= stock_max, build_price_points returns
   exactly stock_min, stock_min + 1, ..., stock_max: at no time does it
   hold more than stock_max - stock_min + 1 samples, the i-th sample is
   stock_min + (i - 1), and the list returned has all of them. *)
C4_WholeNumberAxis ==
    (/\ pc \in {"build", "returned"}
     /\ IsFinite(stock_min) /\ stock_min[1] = stock_max[1]
     /\ (IsFin(stock_min) => stock_min[2] % Scale = 0 /\ stock_max[2] % Scale = 0)
     /\ stock_min[2] <= stock_max[2])
    => LET unit == IF IsFin(stock_min) THEN Scale ELSE 1
           count == (stock_max[2] - stock_min[2]) \div unit + 1
       IN  /\ Len(prices) <= count
           /\ \A i \in 1..Len(prices) :
                prices[i] = <<stock_min[1], stock_min[2] + (i - 1) * unit>>
           /\ pc = "returned" => price_points = prices /\ Len(prices) = count

(* C5 as stated: for stock_min <= stock_max the axis returned is strictly
   increasing and its last sample is <= stock_max + 1e-9. *)
C5_LastWithinTolerance ==
    (pc = "returned" /\ FLeq(stock_min, stock_max))
    => /\ StrictlyIncreasing(price_points)
       /\ Len(price_points) >= 1
       /\ FLeq(Last(price_points), AddTol(stock_max))

(* C5 amended: for stock_min <= stock_max the axis returned is strictly
   increasing and its last sample is below stock_max + 0.01: rounding to 2
   decimals can lift it above stock_max, by less than a cent. *)
C5_LastWithinACent ==
    (pc = "returned" /\ FLeq(stock_min, stock_max))
    => /\ StrictlyIncreasing(price_points)
       /\ Len(price_points) >= 1
       /\ Last(price_points)[1] = stock_max[1]
       /\ IF IsFin(stock_max)
          THEN Last(price_points)[2] < stock_max[2] + Scale \div Cents
          ELSE Last(price_points)[2] * Cents < stock_max[2] * Cents + 1

\* An axis of several samples whose last one was rounded above stock_max.
C5_Witness ==
    /\ pc = "returned"
    /\ Len(price_points) >= 2
    /\ FLt(stock_max, Last(price_points))

(* C6: the expiry-only table has one row per price sample, in the ascending
   order of the axis, and the row of p holds pl_per_contract =
   intrinsic(p) * 100 - premium * 100 and pl_total = pl_per_contract *
   contracts, intrinsic(p) being max(0, p - strike) for a call and
   max(0, strike - p) for a put. *)
C6_ExpiryRows ==
    pc \in {"grid", "done"} =>
      /\ Len(rows) = Len(price_points)
      /\ \A i \in 1..Len(rows) : rows[i].price = price_points[i]
      /\ \A i \in 1..(Len(rows) - 1) : rows[i].price[2] < rows[i + 1].price[2]
      /\ option_type \in {"call", "put"} =>
           \A i \in 1..Len(rows) :
             LET gap == rows[i].price[2] - strike_price[2]
                 intrinsic == IF option_type = "call" THEN Max0(gap) ELSE Max0(0 - gap)
                 per == intrinsic * 100 - premium[2] * 100
             IN  /\ rows[i].pl_per_contract = Fin(per)
                 /\ rows[i].pl_total = Fin(per * contracts)

\* A finished put request of three contracts with three rows or more, one
\* of them in profit.
C6_Witness ==
    /\ pc = "done"
    /\ option_type = "put"
    /\ contracts = 3
    /\ Len(rows) >= 3
    /\ \E i \in 1..Len(rows) : rows[i].pl_per_contract[2] > 0

(* C7: a request whose option_type is neither "call" nor "put" ends in a
   validation error: it never reaches the pricing code and never produces
   an expiry table or a grid. *)
C7_UnknownTypeRejected ==
    (form.option_type \notin {"call", "put"} /\ pc \in {"done", "error", "crash"})
    => /\ pc = "error"
       /\ rows = <<>>
       /\ grid = <<>>

\* The texts of a form that must be turned away: a field that is no number,
\* a contract count that is no whole number, a day that no month has, or a
\* maximum below the minimum.
Thousandths(t) == t[2] * (t[3] * 1000 + t[4])
MustBeRejected(f) ==
    \/ \E name \in {"stock_price", "strike_price", "premium", "implied_volatility",
                    "stock_min", "stock_max"} : f[name][1] \in {"abc", "absent"}
    \/ f.contracts[1] # "int"
    \/ f.expiry_date[3] > DaysInMonth(f.expiry_date[1], f.expiry_date[2])
    \/ /\ f.stock_min[1] \in {"int", "dec"}
       /\ f.stock_max[1] \in {"int", "dec"}
       /\ Thousandths(f.stock_max) < Thousandths(f.stock_min)

(* C8: when stock_max < stock_min, or a numeric field, the contract count
   or the expiry date does not parse, the request ends in the input form
   with an error message before the price axis, the expiry table or any
   grid cell is computed. *)
C8_InvalidInputRejected ==
    (MustBeRejected(form) /\ pc # "start")
    => /\ pc = "error"
       /\ response[1] = "index.html"
       /\ response[2] \in {ErrRange, ErrInvalid}
       /\ prices = <<>> /\ price_points = <<>>
       /\ rows = <<>> /\ date_list = <<>> /\ grid = <<>>

\* A request turned away for its range, every field having parsed.
C8_Witness ==
    /\ pc = "error"
    /\ response = <<"index.html", ErrRange>>
    /\ FirstExc(form, 1) = "none"
    /\ ValidDate(form.expiry_date)

(* C9: a request either fails validation before the computation starts or
   succeeds fully: no request that passed validation ends in an error. *)
C9_NoFailureAfterValidation ==
    pc \in {"error", "crash"} => MustBeRejected(form)

(* C10: every request the handler accepts terminates, and in particular the
   price-axis loop always ends.  The loop test reads only current and
   stock_max, and an iteration changes only current, so the loop ends only
   if, whenever an iteration is about to run, stock_max is a finite number
   and the iteration moves current toward it. *)
C10_PriceLoopEnds ==
    (pc = "build" /\ WithinMax(current, stock_max))
    => /\ IsFinite(stock_max)
       /\ FLt(current, FAdd(current, step))

====
